---- MODULE Spec2Model ----
(***************************************************************************)
(* A model of Media/ch01_Tutorial.py: the tutorial macros                  *)
(* copy_paste_example, say_hello, msg_get_date and create_writer_file and  *)
(* the helper move_to_cell, run one at a time by the host's macro runner   *)
(* against a host (documents, clipboard, dialog and document-creation      *)
(* services).  Every source line is one step; every host call either       *)
(* returns or raises.                                                      *)
(***************************************************************************)
EXTENDS Integers, Sequences, FiniteSets, TLC

VARIABLES
    pc,          \* the source line about to run: "idle", "cpe12", ..., "done", "raised"
    macro,       \* the entry point the runner invoked last
    ret,         \* where move_to_cell returns to
    loc,         \* the local variables of the running function(s)
    docs,        \* host: the open documents, in order of creation
    active,      \* host: index of the current document
    clipboard,   \* host: clipboard contents
    dispatchLog, \* executeDispatch calls of this invocation, in order
    retLog,      \* what each executeDispatch call returned
    writeLog,    \* setString calls (data-model writes) of this invocation
    msgLog,      \* MsgBox calls of this invocation
    createLog,   \* CreateDocument calls of this invocation
    err,         \* the error that reached the macro runner ("none": none)
    hostErr,     \* the error the host raised ("none": none)
    failedAt,    \* the line whose host call raised
    pre,         \* host state when the macro was invoked
    last,        \* the previous completed invocation
    runs         \* invocations so far

vars == <<pc, macro, ret, loc, docs, active, clipboard, dispatchLog, retLog,
          writeLog, msgLog, createLog, err, hostErr, failedAt, pre, last, runs>>

hostVars == <<docs, active, clipboard>>
logVars == <<dispatchLog, retLog, writeLog, msgLog, createLog>>
errVars == <<err, hostErr, failedAt>>
runVars == <<macro, ret, pre, last, runs>>

\* ------------------------------------------------------------------ bounds

\* invocations explored under the fair specification
MaxFairRuns == 1

\* invocations explored
MaxRuns == 2

\* ---------------------------------------------------------- the host's data

Sheets == {"Sheet1", "Sheet2"}
Cells == {"A1", "B1", "C1"}
\* addresses a caller may hand to move_to_cell: valid ones and malformed ones
Addresses == {"A1", "C1", "B1", "ZZ", ""}
NoClip == "<no clipboard>"
HostErrors == {"RuntimeException", "IllegalArgumentException"}
\* what executeDispatch may return: the command was carried out, or it did
\* nothing (no exception either way)
DispatchResults == {"success", "failure"}

NoCells == [s \in {} |-> ""]

CalcDoc(a1) ==
    [kind |-> "Calc",
     cells |-> [s \in Sheets |->
                  IF s = "Sheet1"
                  THEN [c \in Cells |-> IF c = "A1" THEN a1 ELSE IF c = "B1" THEN "b1" ELSE "c1"]
                  ELSE [c \in Cells |-> IF c = "A1" THEN "s2a1" ELSE ""]],
     sheet |-> "Sheet1", sel |-> "B1", text |-> "", stored |-> TRUE]

NewDoc(type) ==
    [kind |-> type,
     cells |-> IF type = "Calc" THEN [s \in Sheets |-> [c \in Cells |-> ""]] ELSE NoCells,
     sheet |-> IF type = "Calc" THEN "Sheet1" ELSE "",
     sel |-> IF type = "Calc" THEN "A1" ELSE "",
     text |-> "", stored |-> FALSE]

Host == [docs |-> docs, active |-> active, clipboard |-> clipboard]

\* --------------------------------------------------------- local variables

NoDate == [day |-> 0, month |-> 0, year |-> 0]

NoCell == [doc |-> 0, sheet |-> "", name |-> ""]

NoLocals ==
    [doc |-> 0, frame |-> 0, ctx |-> "", smgr |-> "", dispatcher |-> "",
     sheet |-> "", cell |-> NoCell, bas |-> "", today |-> NoDate, today_str |-> <<>>,
     ui |-> "", sf_doc |-> 0,
     m_dispatcher |-> "", m_frame |-> 0, m_cell_address |-> "", m_args |-> <<>>]

\* ------------------------------------------------- literals of the source

GoToCellCmd == ".uno:GoToCell"
CutCmd == ".uno:Cut"
CopyCmd == ".uno:Copy"
PasteCmd == ".uno:Paste"
CopySource == "A1"
PasteDest == "C1"
HelloCellB1 == "B1"
HelloCell == "A1"
HelloText == "Hello World"
CalcType == "Calc"
WriterType == "Writer"
WriterText == "Hello World"

\* A variant that replaces an address it does not know by "A1".
MoveToCellArgsValidated(cell_address) ==
    <<[Name |-> "ToPoint", Value |-> IF cell_address \in Cells THEN cell_address ELSE "A1"]>>

\* args = [PropertyValue(Name="ToPoint", Value=cell_address)]
MoveToCellArgs(cell_address) == <<[Name |-> "ToPoint", Value |-> cell_address]>>

\* dispatcher.executeDispatch(frame, url, "", 0, args): the call as the host sees it
DispatchCall(frame, url, args) ==
    [frame |-> frame, url |-> url, target |-> "", flags |-> 0, args |-> args]

\* ------------------------------------------------------------ control flow

\* The line that follows a line which is not a call of move_to_cell.
NextLine(here) ==
    CASE here = "cpe12" -> "cpe13"
      [] here = "cpe13" -> "cpe15"
      [] here = "cpe15" -> "cpe16"
      [] here = "cpe16" -> "cpe17"
      [] here = "cpe17" -> "cpe19"
      [] here = "cpe21" -> "cpe23"
      [] here = "cpe25" -> "done"
      [] here = "mtc8" -> "mtc9"
      [] here = "mtc9" -> ret
      [] here = "sh28" -> "sh29"
      [] here = "sh29" -> "sh30"
      [] here = "sh30" -> "sh31"
      [] here = "sh31" -> "done"
      [] here = "mgd35" -> "mgd37"
      [] here = "mgd37" -> "mgd38"
      [] here = "mgd38" -> "mgd38w"
      [] here = "mgd38w" -> "done"
      [] here = "cwf41" -> "cwf42"
      [] here = "cwf42" -> "cwf43"
      [] here = "cwf43" -> "cwf44"
      [] here = "cwf44" -> "done"

\* Where a call of move_to_cell returns to.
ReturnSite(here) ==
    CASE here = "cpe19" -> "cpe21"
      [] here = "cpe23" -> "cpe25"

\* A variant that gives up when a dispatch reports that it did nothing.
AfterDispatchChecked(here, r) == IF r = "failure" THEN "done" ELSE NextLine(here)

\* executeDispatch is an expression statement: whatever it returns is dropped
\* and control goes to the next line.
AfterDispatch(here, r) == NextLine(here)

\* A variant that catches the error and raises one of its own.
PropagateWrapped(e) == "RuntimeError"

\* No try/except anywhere: the error the host raised is the error the caller gets.
Propagate(e) == e

Raises(e) ==
    /\ hostErr' = e
    /\ err' = Propagate(e)
    /\ failedAt' = pc
    /\ pc' = "raised"

\* A host call with no effect on the host: it returns (the locals become
\* newloc) or raises.
HostCall(here, newloc) ==
    /\ pc = here
    /\ \/ /\ pc' = NextLine(here)
          /\ loc' = newloc
          /\ UNCHANGED errVars
       \/ /\ \E e \in HostErrors : Raises(e)
          /\ UNCHANGED loc
    /\ UNCHANGED <<hostVars, logVars, runVars>>

\* ------------------------------------------------- the dispatch mechanism

\* Whether the host can carry the command out on that frame.
Performable(frame, url, args) ==
    /\ frame \in 1..Len(docs)
    /\ docs[frame].kind = "Calc"
    /\ CASE url = GoToCellCmd ->
              /\ Len(args) = 1
              /\ args[1].Name = "ToPoint"
              /\ args[1].Value \in Cells
         [] url = CopyCmd -> TRUE
         [] url = PasteCmd -> clipboard # NoClip
         [] OTHER -> FALSE

\* The documents after the host carried the command out.
DispatchedDocs(frame, url, args) ==
    LET d == docs[frame] IN
    CASE url = GoToCellCmd -> [docs EXCEPT ![frame].sel = args[1].Value]
      [] url = PasteCmd -> [docs EXCEPT ![frame].cells[d.sheet][d.sel] = clipboard]
      [] OTHER -> docs

\* The clipboard after the host carried the command out.
DispatchedClipboard(frame, url) ==
    LET d == docs[frame] IN
    IF url = CopyCmd THEN d.cells[d.sheet][d.sel] ELSE clipboard

\* dispatcher.executeDispatch(frame, url, "", 0, args) at line `here`.
ExecuteDispatch(here, frame, url, args) ==
    /\ dispatchLog' = Append(dispatchLog, DispatchCall(frame, url, args))
    /\ \/ \E r \in DispatchResults :
             /\ r = "success" => Performable(frame, url, args)
             /\ retLog' = Append(retLog, r)
             /\ docs' = IF r = "success" THEN DispatchedDocs(frame, url, args) ELSE docs
             /\ clipboard' = IF r = "success" THEN DispatchedClipboard(frame, url) ELSE clipboard
             /\ pc' = AfterDispatch(here, r)
             /\ UNCHANGED errVars
       \/ /\ \E e \in HostErrors : Raises(e)
          /\ UNCHANGED <<retLog, docs, clipboard>>
    /\ UNCHANGED <<active, writeLog, msgLog, createLog, loc, runVars>>

\* ------------------------------------------------------------ move_to_cell

MtcL8 ==
    /\ pc = "mtc8"
    /\ loc' = [loc EXCEPT !.m_args = MoveToCellArgs(loc.m_cell_address)]
    /\ pc' = NextLine("mtc8")
    /\ UNCHANGED <<hostVars, logVars, errVars, runVars>>

MtcL9 ==
    /\ pc = "mtc9"
    /\ ExecuteDispatch("mtc9", loc.m_frame, GoToCellCmd, loc.m_args)

\* ------------------------------------------------------ copy_paste_example

CpeL12 == HostCall("cpe12", [loc EXCEPT !.doc = active])

CpeL13 == HostCall("cpe13", [loc EXCEPT !.frame = loc.doc])

CpeL15 == HostCall("cpe15", [loc EXCEPT !.ctx = "ComponentContext"])

CpeL16 == HostCall("cpe16", [loc EXCEPT !.smgr = "ServiceManager"])

\* A variant that starts over once the dispatch helper is created.
CpeL17StartsOver ==
    /\ pc = "cpe17"
    /\ pc' = "cpe12"
    /\ loc' = [loc EXCEPT !.dispatcher = "com.sun.star.frame.DispatchHelper"]
    /\ UNCHANGED <<hostVars, logVars, errVars, runVars>>

CpeL17 == HostCall("cpe17", [loc EXCEPT !.dispatcher = "com.sun.star.frame.DispatchHelper"])

CallMoveToCell(here, dispatcher, frame, cell_address) ==
    /\ pc = here
    /\ loc' = [loc EXCEPT !.m_dispatcher = dispatcher, !.m_frame = frame,
                          !.m_cell_address = cell_address, !.m_args = <<>>]
    /\ ret' = ReturnSite(here)
    /\ pc' = "mtc8"
    /\ UNCHANGED <<hostVars, logVars, errVars, macro, pre, last, runs>>

CpeL19 == CallMoveToCell("cpe19", loc.dispatcher, loc.frame, CopySource)

CpeL21 ==
    /\ pc = "cpe21"
    /\ ExecuteDispatch("cpe21", loc.frame, CopyCmd, <<>>)

CpeL23 == CallMoveToCell("cpe23", loc.dispatcher, loc.frame, PasteDest)

CpeL25 ==
    /\ pc = "cpe25"
    /\ ExecuteDispatch("cpe25", loc.frame, PasteCmd, <<>>)

\* --------------------------------------------------------------- say_hello

\* A variant that appends to what the cell holds.
HelloValueAppended(old) == old \o HelloText

\* The string line 31 writes, whatever the cell held before.
HelloValue(old) == HelloText

CellWrite(c, value) ==
    [kind |-> "cell", doc |-> c.doc, sheet |-> c.sheet, name |-> c.name, value |-> value]

TextWrite(d, value) ==
    [kind |-> "text", doc |-> d, sheet |-> "", name |-> "", value |-> value]

ShL28 == HostCall("sh28", [loc EXCEPT !.doc = active])

\* Only a spreadsheet's controller has getActiveSheet.
ShL29 ==
    /\ pc = "sh29"
    /\ \/ /\ docs[loc.doc].kind = "Calc"
          /\ loc' = [loc EXCEPT !.sheet = docs[loc.doc].sheet]
          /\ pc' = NextLine("sh29")
          /\ UNCHANGED errVars
       \/ /\ \E e \in HostErrors \cup {"AttributeError"} :
                /\ e = "AttributeError" <=> docs[loc.doc].kind # "Calc"
                /\ Raises(e)
          /\ UNCHANGED loc
    /\ UNCHANGED <<hostVars, logVars, runVars>>

ShL30 ==
    /\ HelloCell \in Cells
    /\ HostCall("sh30", [loc EXCEPT !.cell = [doc |-> loc.doc, sheet |-> loc.sheet, name |-> HelloCell]])

\* A variant that enters the string through the dispatch mechanism.
ShL31ViaDispatch ==
    /\ pc = "sh31"
    /\ ExecuteDispatch("sh31", loc.doc, ".uno:EnterString",
                       <<[Name |-> "StringName", Value |-> HelloText]>>)

ShL31 ==
    /\ pc = "sh31"
    /\ LET c == loc.cell
           v == HelloValue(docs[c.doc].cells[c.sheet][c.name])
       IN /\ writeLog' = Append(writeLog, CellWrite(c, v))
          /\ \/ /\ docs' = [docs EXCEPT ![c.doc].cells[c.sheet][c.name] = v]
                /\ pc' = NextLine("sh31")
                /\ UNCHANGED errVars
             \/ /\ \E e \in HostErrors : Raises(e)
                /\ UNCHANGED docs
    /\ UNCHANGED <<active, clipboard, dispatchLog, retLog, msgLog, createLog, loc, runVars>>

\* ------------------------------------------------------------ msg_get_date

DigitChars == <<"0", "1", "2", "3", "4", "5", "6", "7", "8", "9">>

Digit(n) == DigitChars[n + 1]

RECURSIVE Decimal(_)
Decimal(n) == IF n < 10 THEN <<Digit(n)>> ELSE Decimal(n \div 10) \o <<Digit(n % 10)>>

RECURSIVE ZeroPad(_, _)
ZeroPad(s, width) == IF Len(s) >= width THEN s ELSE ZeroPad(<<"0">> \o s, width)

\* A variant with the format "%m/%d/%Y".
StrftimeMonthFirst(d) ==
    ZeroPad(Decimal(d.month), 2) \o <<"/">> \o ZeroPad(Decimal(d.day), 2)
        \o <<"/">> \o ZeroPad(Decimal(d.year), 4)

\* strftime("%d/%m/%Y")
Strftime(d) ==
    ZeroPad(Decimal(d.day), 2) \o <<"/">> \o ZeroPad(Decimal(d.month), 2)
        \o <<"/">> \o ZeroPad(Decimal(d.year), 4)

TodayIs == <<"T", "o", "d", "a", "y", " ", "i", "s", " ">>
HaveANiceDay ==
    <<"\n", "H", "a", "v", "e", " ", "a", " ", "n", "i", "c", "e", " ", "d", "a", "y", "!">>

\* f"Today is {today_str}\nHave a nice day!"
FormatMsg(today_str) == TodayIs \o today_str \o HaveANiceDay

\* The dates the clock may show.
DaysInMonth(m) == IF m \in {4, 6, 9, 11} THEN 30 ELSE IF m = 2 THEN 28 ELSE 31
Dates ==
    {d \in [day : {9, 31}, month : {1, 9, 12}, year : {1999, 2026}] :
        d.day <= DaysInMonth(d.month)}

MgdL35 == HostCall("mgd35", [loc EXCEPT !.bas = "Basic"])

MgdL37 ==
    /\ pc = "mgd37"
    /\ \E d \in Dates : loc' = [loc EXCEPT !.today = d, !.today_str = Strftime(d)]
    /\ pc' = NextLine("mgd37")
    /\ UNCHANGED <<hostVars, logVars, errVars, runVars>>

\* bas.MsgBox(...): the dialog opens and the call blocks, or the service raises.
MgdL38 ==
    /\ pc = "mgd38"
    /\ msgLog' = Append(msgLog, FormatMsg(loc.today_str))
    /\ \/ /\ pc' = NextLine("mgd38")
          /\ UNCHANGED errVars
       \/ \E e \in HostErrors : Raises(e)
    /\ UNCHANGED <<hostVars, dispatchLog, retLog, writeLog, createLog, loc, runVars>>

\* The user dismisses the dialog and MsgBox returns.
Dismiss ==
    /\ pc = "mgd38w"
    /\ pc' = NextLine("mgd38w")
    /\ UNCHANGED <<hostVars, logVars, errVars, loc, runVars>>

\* ------------------------------------------------------ create_writer_file

CwfL41 == HostCall("cwf41", [loc EXCEPT !.ui = "UI"])

\* ui.CreateDocument(type): the host opens a new, empty, unsaved document; it
\* may or may not become the current one.
CwfL42 ==
    /\ pc = "cwf42"
    /\ createLog' = Append(createLog, WriterType)
    /\ \/ /\ docs' = Append(docs, NewDoc(WriterType))
          /\ active' \in {active, Len(docs) + 1}
          /\ loc' = [loc EXCEPT !.sf_doc = Len(docs) + 1]
          /\ pc' = NextLine("cwf42")
          /\ UNCHANGED errVars
       \/ /\ \E e \in HostErrors : Raises(e)
          /\ UNCHANGED <<docs, active, loc>>
    /\ UNCHANGED <<clipboard, dispatchLog, retLog, writeLog, msgLog, runVars>>

CwfL43 == HostCall("cwf43", [loc EXCEPT !.doc = loc.sf_doc])

\* doc.Text.setString(...)
CwfL44 ==
    /\ pc = "cwf44"
    /\ writeLog' = Append(writeLog, TextWrite(loc.doc, WriterText))
    /\ \/ /\ docs' = [docs EXCEPT ![loc.doc].text = WriterText]
          /\ pc' = NextLine("cwf44")
          /\ UNCHANGED errVars
       \/ /\ \E e \in HostErrors : Raises(e)
          /\ UNCHANGED docs
    /\ UNCHANGED <<active, clipboard, dispatchLog, retLog, msgLog, createLog, loc, runVars>>

\* -------------------------------------------------------- the macro runner

Macros == {"copy_paste_example", "say_hello", "msg_get_date", "create_writer_file"}

FirstLine(m) ==
    CASE m = "copy_paste_example" -> "cpe12"
      [] m = "say_hello" -> "sh28"
      [] m = "msg_get_date" -> "mgd35"
      [] m = "create_writer_file" -> "cwf41"

Start(m, locals) ==
    /\ pc = "idle"
    /\ runs < MaxRuns
    /\ macro' = m
    /\ loc' = locals
    /\ pre' = Host
    /\ runs' = runs + 1
    /\ UNCHANGED <<hostVars, logVars, errVars, ret, last>>

\* The runner invokes one entry point (args=None).
Invoke ==
    \E m \in Macros :
        /\ Start(m, NoLocals)
        /\ pc' = FirstLine(m)

\* A caller other than copy_paste_example calls move_to_cell with a dispatch
\* helper, a frame and an address of its choice.
InvokeMoveToCell ==
    \E frame \in 1..Len(docs), cell_address \in Addresses :
        /\ Start("move_to_cell",
                 [NoLocals EXCEPT !.m_dispatcher = "com.sun.star.frame.DispatchHelper",
                                  !.m_frame = frame, !.m_cell_address = cell_address])
        /\ pc' = "mtc8"

\* The function ended (by return or by an uncaught error): its locals are
\* gone and the runner is ready for the next macro.
Return ==
    /\ pc \in {"done", "raised"}
    /\ pc' = "idle"
    /\ last' = [macro |-> macro, ok |-> pc = "done", post |-> Host]
    /\ macro' = "none"
    /\ loc' = NoLocals
    /\ ret' = "done"
    /\ dispatchLog' = <<>>
    /\ retLog' = <<>>
    /\ writeLog' = <<>>
    /\ msgLog' = <<>>
    /\ createLog' = <<>>
    /\ err' = "none"
    /\ hostErr' = "none"
    /\ failedAt' = "none"
    /\ pre' = Host
    /\ UNCHANGED <<hostVars, runs>>

\* Between macros the user may make another document or sheet the current one
\* (pre follows the host while no macro runs).
UserActivate ==
    /\ pc = "idle"
    /\ \E d \in 1..Len(docs) :
          /\ active' = d
          /\ \/ /\ docs[d].kind = "Calc"
                /\ \E s \in Sheets : docs' = [docs EXCEPT ![d].sheet = s]
             \/ /\ docs[d].kind # "Calc"
                /\ UNCHANGED docs
    /\ <<active', docs'>> # <<active, docs>>
    /\ pre' = [docs |-> docs', active |-> active', clipboard |-> clipboard]
    /\ UNCHANGED <<clipboard, logVars, errVars, loc, macro, ret, last, runs, pc>>

\* ---------------------------------------------------------- specification

Init ==
    /\ pc = "idle"
    /\ macro = "none"
    /\ ret = "done"
    /\ loc = NoLocals
    /\ docs = <<CalcDoc("a1")>>
    /\ active = 1
    /\ clipboard \in {NoClip, "clip"}
    /\ dispatchLog = <<>>
    /\ retLog = <<>>
    /\ writeLog = <<>>
    /\ msgLog = <<>>
    /\ createLog = <<>>
    /\ err = "none"
    /\ hostErr = "none"
    /\ failedAt = "none"
    /\ pre = Host
    /\ last = [macro |-> "none", ok |-> FALSE, post |-> Host]
    /\ runs = 0

Step ==
    \/ MtcL8 \/ MtcL9
    \/ CpeL12 \/ CpeL13 \/ CpeL15 \/ CpeL16 \/ CpeL17
    \/ CpeL19 \/ CpeL21 \/ CpeL23 \/ CpeL25
    \/ ShL28 \/ ShL29 \/ ShL30 \/ ShL31
    \/ MgdL35 \/ MgdL37 \/ MgdL38 \/ Dismiss
    \/ CwfL41 \/ CwfL42 \/ CwfL43 \/ CwfL44

Next == Step \/ Invoke \/ InvokeMoveToCell \/ Return \/ UserActivate

Spec == Init /\ [][Next]_vars

\* The runner runs a macro synchronously to its end, and the user eventually
\* dismisses the dialog: a step that can be taken is eventually taken.
FairInvoke == Invoke /\ runs' <= MaxFairRuns

FairInvokeMoveToCell == InvokeMoveToCell /\ runs' <= MaxFairRuns

FairNext == Step \/ FairInvoke \/ FairInvokeMoveToCell \/ Return \/ UserActivate

FairSpec == Init /\ [][FairNext]_vars /\ WF_vars(Step)

\* ------------------------------------------------------------------ claims

Running == pc \notin {"idle", "done", "raised"}

IsPrefix(s, t) == Len(s) <= Len(t) /\ \A i \in 1..Len(s) : s[i] = t[i]

\* The command and parameter list of each logged dispatch call.
Commands(log) == [i \in 1..Len(log) |-> <<log[i].url, log[i].args>>]

FourSteps ==
    << <<".uno:GoToCell", <<[Name |-> "ToPoint", Value |-> "A1"]>> >>,
       <<".uno:Copy", <<>> >>,
       <<".uno:GoToCell", <<[Name |-> "ToPoint", Value |-> "C1"]>> >>,
       <<".uno:Paste", <<>> >> >>

\* C1: in one invocation of copy_paste_example the dispatch calls made so far
\* are always the first calls of navigate(A1), copy, navigate(C1), paste, all
\* on the frame of the document that was current at invocation, and when the
\* macro ends without an error they are exactly those four.
C1_FourDispatchesInOrder ==
    macro = "copy_paste_example" =>
        /\ IsPrefix(Commands(dispatchLog), FourSteps)
        /\ \A i \in 1..Len(dispatchLog) : dispatchLog[i].frame = pre.active
        /\ pc = "done" => Commands(dispatchLog) = FourSteps

C1_Witness ==
    /\ macro = "copy_paste_example"
    /\ pc = "done"
    /\ Len(dispatchLog) = 4
    /\ docs[pre.active].kind = "Calc"
    /\ docs[pre.active].cells["Sheet1"]["C1"] = "a1"

\* C2: when move_to_cell returns, it has made exactly one dispatch call, on
\* the frame it was given, with command .uno:GoToCell and exactly one
\* parameter, ToPoint, whose value is the address it was given, valid or not.
C2_MoveToCellOneDispatch ==
    LET before == IF macro = "move_to_cell" THEN 0 ELSE IF pc = "cpe21" THEN 0 ELSE 2
        call == dispatchLog[before + 1]
    IN  /\ macro = "move_to_cell" => Len(dispatchLog) <= 1
        /\ (macro = "move_to_cell" /\ pc = "done") \/ pc \in {"cpe21", "cpe25"} =>
              /\ Len(dispatchLog) = before + 1
              /\ call.frame = loc.m_frame
              /\ call.url = ".uno:GoToCell"
              /\ Len(call.args) = 1
              /\ call.args[1] = [Name |-> "ToPoint", Value |-> loc.m_cell_address]

C2_Witness ==
    /\ macro = "move_to_cell"
    /\ pc = "done"
    /\ loc.m_cell_address = "ZZ"
    /\ loc.m_frame = 2
    /\ Len(dispatchLog) = 1

\* C3: when say_hello has completed, the documents are what they were at
\* invocation except that cell A1 of the current document's active sheet holds
\* "Hello World"; the current document and the clipboard are as before.
C3_SayHelloWritesOnlyA1 ==
    (macro = "say_hello" /\ pc = "done") =>
        LET d == pre.active
            s == pre.docs[d].sheet
        IN  /\ docs = [pre.docs EXCEPT ![d].cells[s]["A1"] = "Hello World"]
            /\ docs[d].cells[s]["A1"] = "Hello World"
            /\ active = pre.active
            /\ clipboard = pre.clipboard

C3_Witness ==
    /\ macro = "say_hello"
    /\ pc = "done"
    /\ Len(docs) = 2
    /\ pre.docs[pre.active].sheet = "Sheet2"
    /\ pre.docs[pre.active].cells["Sheet2"]["A1"] = "s2a1"
    /\ docs[pre.active].cells["Sheet1"]["A1"] = "a1"

\* C4: create_writer_file makes at most one document-creation request, and
\* when it has completed it has made exactly one, for "Writer"; the documents
\* are those of before, unchanged, followed by one new unsaved Writer document
\* whose text is "Hello World"; the only data-model write is that text, no
\* dispatch was made and the clipboard is as before.
C4_CreateWriterFileEffect ==
    macro = "create_writer_file" =>
        /\ Len(createLog) <= 1
        /\ SubSeq(docs, 1, Len(pre.docs)) = pre.docs
        /\ clipboard = pre.clipboard
        /\ dispatchLog = <<>>
        /\ pc = "done" =>
              LET n == Len(docs) IN
              /\ createLog = <<"Writer">>
              /\ n = Len(pre.docs) + 1
              /\ docs[n].kind = "Writer"
              /\ docs[n].text = "Hello World"
              /\ docs[n].stored = FALSE
              /\ Len(writeLog) = 1
              /\ writeLog[1].kind = "text" /\ writeLog[1].doc = n

C4_Witness ==
    /\ macro = "create_writer_file"
    /\ pc = "done"
    /\ Len(pre.docs) = 2
    /\ pre.active = 2
    /\ pre.docs[2].text = "Hello World"
    /\ Len(docs) = 3

DigitValue(c) == CHOOSE k \in 0..9 : DigitChars[k + 1] = c

IsDigit(c) == \E k \in 0..9 : DigitChars[k + 1] = c

\* Whether message m is "Today is DD/MM/YYYY\nHave a nice day!" for date d.
MessageFor(m, d) ==
    /\ Len(m) = 36
    /\ SubSeq(m, 1, 9) = <<"T", "o", "d", "a", "y", " ", "i", "s", " ">>
    /\ \A i \in {10, 11, 13, 14, 16, 17, 18, 19} : IsDigit(m[i])
    /\ 10 * DigitValue(m[10]) + DigitValue(m[11]) = d.day
    /\ m[12] = "/"
    /\ 10 * DigitValue(m[13]) + DigitValue(m[14]) = d.month
    /\ m[15] = "/"
    /\ 1000 * DigitValue(m[16]) + 100 * DigitValue(m[17])
          + 10 * DigitValue(m[18]) + DigitValue(m[19]) = d.year
    /\ SubSeq(m, 20, 36) =
          <<"\n", "H", "a", "v", "e", " ", "a", " ", "n", "i", "c", "e", " ", "d", "a", "y", "!">>

\* C5: msg_get_date makes at most one MsgBox call, and once the call is made
\* its message is "Today is ", the current date as two-digit day, "/",
\* two-digit month, "/", four-digit year, a newline and "Have a nice day!";
\* everything outside positions 10..19 is the same for every date.
C5_MsgBoxMessage ==
    macro = "msg_get_date" =>
        /\ Len(msgLog) <= 1
        /\ pc \in {"mgd38w", "done"} =>
              /\ Len(msgLog) = 1
              /\ MessageFor(msgLog[1], loc.today)

C5_Witness ==
    /\ macro = "msg_get_date"
    /\ pc = "done"
    /\ loc.today = [day |-> 9, month |-> 1, year |-> 2026]
    /\ Len(msgLog) = 1

\* How many host calls of each kind have been issued when the call at a given
\* line raises: the failing call is the last one issued.
IssuedWhenFailing ==
    CASE failedAt \in {"cpe12", "cpe13", "cpe15", "cpe16", "cpe17"} -> <<0, 0, 0, 0>>
      [] failedAt = "mtc9" /\ macro = "move_to_cell" -> <<1, 0, 0, 0>>
      [] failedAt = "mtc9" /\ ret = "cpe21" -> <<1, 0, 0, 0>>
      [] failedAt = "cpe21" -> <<2, 0, 0, 0>>
      [] failedAt = "mtc9" /\ ret = "cpe25" -> <<3, 0, 0, 0>>
      [] failedAt = "cpe25" -> <<4, 0, 0, 0>>
      [] failedAt \in {"sh28", "sh29", "sh30"} -> <<0, 0, 0, 0>>
      [] failedAt = "sh31" -> <<0, 1, 0, 0>>
      [] failedAt = "mgd35" -> <<0, 0, 0, 0>>
      [] failedAt = "mgd38" -> <<0, 0, 1, 0>>
      [] failedAt = "cwf41" -> <<0, 0, 0, 0>>
      [] failedAt \in {"cwf42", "cwf43"} -> <<0, 0, 0, 1>>
      [] failedAt = "cwf44" -> <<0, 1, 0, 1>>
      [] OTHER -> <<-1, -1, -1, -1>>

\* C6: when a host call raises, the macro is over: the runner gets the very
\* error the host raised, and the host calls issued are those up to the
\* failing one and none of the later ones; the failing call changed nothing.
C6_ErrorPropagates ==
    /\ hostErr # "none" =>
          /\ pc = "raised"
          /\ err = hostErr
          /\ <<Len(dispatchLog), Len(writeLog), Len(msgLog), Len(createLog)>> = IssuedWhenFailing
          /\ Len(retLog) = Len(dispatchLog) - (IF failedAt \in {"mtc9", "cpe21", "cpe25"} THEN 1 ELSE 0)
    /\ (pc = "raised" \/ err # "none") => hostErr # "none"

C6_Witness ==
    /\ macro = "copy_paste_example"
    /\ pc = "raised"
    /\ failedAt = "cpe21"
    /\ hostErr = "IllegalArgumentException"
    /\ Len(dispatchLog) = 2

\* C7: in copy_paste_example, after k dispatch calls have returned, whatever
\* they returned, exactly the first k of the four steps have been issued (plus
\* the one that raised, if one did) and control is at or before step k+1: the
\* macro ends without an error only after all four have returned.
C7_PasteRegardlessOfCopyResult ==
    (macro = "copy_paste_example" /\ pc # "raised") =>
        LET k == Len(retLog) IN
        /\ k \in 0..4
        /\ Commands(dispatchLog) = SubSeq(FourSteps, 1, k)
        /\ k = 0 => pc \in {"cpe12", "cpe13", "cpe15", "cpe16", "cpe17", "cpe19", "mtc8", "mtc9"}
        /\ k = 1 => pc = "cpe21"
        /\ k = 2 => pc \in {"cpe23", "mtc8", "mtc9"}
        /\ k = 3 => pc = "cpe25"
        /\ k = 4 => pc = "done"

C7_Witness ==
    /\ macro = "copy_paste_example"
    /\ pc = "done"
    /\ retLog = <<"failure", "failure", "success", "success">>
    /\ docs[pre.active].kind = "Calc"
    /\ docs[pre.active].cells["Sheet1"]["C1"] = "clip"

\* C8: every macro that is running reaches its end (it returns, or a host
\* call raises), given that the runner keeps running it and the dialog is
\* eventually dismissed.
C8_MacroTerminates == Running ~> (pc \in {"done", "raised"})

C8_Witness ==
    /\ macro = "msg_get_date"
    /\ pc = "done"
    /\ err = "none"
    /\ runs = 1

\* C9: say_hello makes no dispatch call and leaves the clipboard alone;
\* copy_paste_example makes no data-model write, and a step of it changes the
\* documents only by issuing a dispatch call.
C9_SeparatePaths ==
    /\ [](macro = "say_hello" =>
             /\ dispatchLog = <<>>
             /\ retLog = <<>>
             /\ clipboard = pre.clipboard)
    /\ [](macro = "copy_paste_example" => writeLog = <<>>)
    /\ [][(macro = "copy_paste_example" /\ docs' # docs) =>
             Len(dispatchLog') = Len(dispatchLog) + 1]_vars

C9_Witness ==
    /\ macro = "say_hello"
    /\ pc = "done"
    /\ last.macro = "copy_paste_example"
    /\ last.ok
    /\ clipboard = "a1"
    /\ docs[active].cells["Sheet1"]["C1"] = "a1"
    /\ Len(writeLog) = 1

\* C10: a second say_hello right after a completed one, with the same current
\* document and active sheet, changes nothing: the host is as the first run
\* left it, A1 holding "Hello World".  A second create_writer_file right after
\* a completed one adds one more document, distinct from the one the first
\* run added, and both hold "Hello World".
C10_IdempotentOrNot ==
    /\ (/\ macro = "say_hello" /\ pc = "done"
        /\ last.macro = "say_hello" /\ last.ok
        /\ pre.active = last.post.active
        /\ pre.docs[pre.active].sheet = last.post.docs[pre.active].sheet) =>
            /\ Host = pre
            /\ Host = last.post
            /\ docs[active].cells[docs[active].sheet]["A1"] = "Hello World"
    /\ (/\ macro = "create_writer_file" /\ pc = "done"
        /\ last.macro = "create_writer_file" /\ last.ok) =>
            LET n == Len(docs) IN
            /\ n = Len(last.post.docs) + 1
            /\ n = Len(pre.docs) + 1
            /\ \A i \in {n - 1, n} : docs[i].kind = "Writer" /\ docs[i].text = "Hello World"

C10_Witness ==
    /\ macro = "say_hello" /\ pc = "done"
    /\ last.macro = "say_hello" /\ last.ok
    /\ pre.active = last.post.active
    /\ pre.docs[pre.active].sheet = last.post.docs[pre.active].sheet
    /\ docs[active].sheet = "Sheet2"

\* Two create_writer_file runs in a row have completed.
C10_WitnessTwoDocuments ==
    /\ macro = "create_writer_file" /\ pc = "done"
    /\ last.macro = "create_writer_file" /\ last.ok
    /\ Len(docs) = 3

====
